---- MODULE Spec2Model ----
(***************************************************************************)
(* A model of lpg (src/main.rs): a batch tool that turns every decoded     *)
(* input image into three assets (a 5-slot poster atlas, a tips card and a *)
(* painting) on a rayon thread pool.                                       *)
(*                                                                         *)
(* Two specifications are given.                                           *)
(*   Spec      the whole run of main(): startup, load_input_imgs, the      *)
(*             parallel loop of generate_assets with its 3-task scope per  *)
(*             index, the progress bar, the summary and the exit status.   *)
(*             A variant task (generate + save_with_format) is one step.   *)
(*   SpecAtlas one invocation of generate_atlas at the grain of its        *)
(*             parallel resizes, the collect and the sequential overlays.  *)
(* Images are identified by an id; dims gives an image's width and height. *)
(* Pixel values are not modelled: a canvas is the template it was cloned   *)
(* from and the sequence of overlays applied to it.                        *)
(***************************************************************************)
EXTENDS Integers, Sequences, FiniteSets

\* ------------------------------------------------------------ bounds
\* The input directory holds at most MaxPaths entries (specification Spec).
MaxPaths == 2
\* The store holds at most MaxStore images (specification SpecAtlas).
MaxStore == 7
\* Source images are up to MaxSide pixels, or up to MaxSide * 500 pixels, a
\* side (specification SpecGen).
MaxSide == 3

\* ------------------------------------------------------------ constants
\* POSTER_OFFSETS has 5 entries; generate_atlas takes 5 posters.
NumSlots == 5

\* Faulty variant of POSTER_OFFSETS: the last slot is 10 pixels wider.
POSTER_OFFSETS_WIDE ==
    << <<0, 0, 341, 559>>,
       <<346, 0, 284, 559>>,
       <<641, 58, 274, 243>>,
       <<184, 620, 411, 364>>,
       <<632, 320, 382, 672>> >>

\* Faulty variant of POSTER_OFFSETS: the second slot starts 6 pixels early.
POSTER_OFFSETS_OVERLAP ==
    << <<0, 0, 341, 559>>,
       <<340, 0, 284, 559>>,
       <<641, 58, 274, 243>>,
       <<184, 620, 411, 364>>,
       <<632, 320, 372, 672>> >>

\* [x, y, width, height] of every atlas slot, in table order.
POSTER_OFFSETS ==
    << <<0, 0, 341, 559>>,
       <<346, 0, 284, 559>>,
       <<641, 58, 274, 243>>,
       <<184, 620, 411, 364>>,
       <<632, 320, 372, 672>> >>

TEMPLATE_POSTER == "poster_template.png"
TEMPLATE_PAINTING == "painting_template.png"
POSTERS_OUT_DIR == "BepInEx/plugins/LethalPosters/posters"
TIPS_OUT_DIR == "BepInEx/plugins/LethalPosters/tips"
PAINTINGS_OUT_DIR == "BepInEx/plugins/LethalPaintings/paintings"

\* The three variant tasks of one index, in spawn order, and where each writes.
Variants == <<"atlas", "tips", "painting">>
VariantSet == {Variants[n] : n \in 1..Len(Variants)}
OutDir(v) ==
    CASE v = "atlas" -> POSTERS_OUT_DIR
      [] v = "tips" -> TIPS_OUT_DIR
      [] v = "painting" -> PAINTINGS_OUT_DIR
OutDirs == {OutDir(v) : v \in VariantSet}

\* Width and height of the input images the model draws from.
Shapes == {<<500, 500>>, <<1920, 1080>>}
DefaultShape == <<500, 500>>

\* ------------------------------------------------------------ helpers
None == "none"

Slots == 0 .. NumSlots - 1

Max(a, b) == IF a >= b THEN a ELSE b
Min(a, b) == IF a <= b THEN a ELSE b

\* The modulus of the model's unsigned subtraction. A u32 wraps modulo 2^32,
\* which TLC's 32-bit integers cannot hold; 2^30 is used instead. Every
\* coordinate of the model is below 2^12, so with either modulus an underflow
\* lands far to the right of every canvas and no other subtraction wraps.
WrapModulus == 1073741824

\* Faulty variant of sub_u32: the operands are swapped.
sub_u32_swapped(a, b) == (b - a) % WrapModulus

\* a - b on u32 as a release build computes it: an underflow wraps (a debug
\* build panics instead).
sub_u32(a, b) == (a - b) % WrapModulus

\* v[j] of a Vec, 0-based: an index past the end panics.
InBounds(v, j) == j >= 0 /\ j < Len(v)
Index(v, j) == v[j + 1]

\* Faulty variant of ImgName: every index gets the same name.
ImgNameFixed(i) == <<0, ".png">>

\* format!("{i}.png")
ImgName(i) == <<i, ".png">>

\* get_path: base joined with sub_path.
get_path(base, sub_path) == <<base, sub_path>>

\* round() of the non-negative rational n / d, halves away from zero.
RoundDiv(n, d) == (2 * n + d) \div (2 * d)

\* image's resize_dimensions: the size of a w x h image resized into the box
\* nw x nh keeping its aspect ratio; fill picks the larger ratio.
resize_dimensions(w, h, nw, nh, fill) ==
    LET byWidth == IF fill THEN nw * h >= nh * w ELSE nw * h <= nh * w
    IN  IF byWidth
        THEN <<Max(nw, 1), Max(RoundDiv(h * nw, w), 1)>>
        ELSE <<Max(RoundDiv(w * nh, h), 1), Max(nh, 1)>>

\* ------------------------------------------------------------ state
VARIABLES
    pc,          \* where the main thread is
    exitStatus,  \* "running", "success" (exit 0) or "failure" (panic, non-zero)
    failure,     \* the panic that ended the run, None when there is none
    summary,     \* whether "Operation complete!" was printed (line 64)
    dirs,        \* the output directories created so far
    templates,   \* the templates loaded so far
    dirEntries,  \* the input directory: per entry, whether the file decodes
    decoded,     \* load_input_imgs' filter_map: per entry "pending", "ok" or "err"
    input_imgs,  \* the Decoded Image Store, a sequence of image ids
    dims,        \* image id -> <<width, height>>
    bar,         \* the progress bar: [len, pos, finished]
    worker,      \* index i -> where the for_each closure of i is
    task,        \* index i -> variant -> "unspawned", "pending", "done", "failed"
    files,       \* the files written: a set of [path, content]
    nwrites,     \* output directory -> number of successful saves into it
    aidx,        \* SpecAtlas: the output index whose atlas is generated
    posters,     \* SpecAtlas: generate_atlas' 5 source images
    apc,         \* SpecAtlas: where generate_atlas is
    resized,     \* SpecAtlas: slot -> the map closure's result, <<>> until done
    last_done,   \* SpecAtlas: the slot whose resize finished last, if any
    overlays,    \* SpecAtlas: the collected Vec
    cursor,      \* SpecAtlas: how many elements the for loop has consumed
    base,        \* SpecAtlas: the canvas
    writers      \* SpecAtlas: the overlays writing to base right now

runVars == <<pc, exitStatus, failure, summary, dirs, templates, dirEntries,
             decoded, bar, worker, task, files, nwrites>>
atlasVars == <<aidx, posters, apc, resized, last_done, overlays, cursor, base,
               writers>>
vars == <<runVars, input_imgs, dims, atlasVars>>

\* generate_atlas has not been entered.
AtlasIdle ==
    /\ aidx = 0
    /\ posters = <<>>
    /\ apc = "idle"
    /\ resized = [k \in Slots |-> <<>>]
    /\ last_done = {}
    /\ overlays = <<>>
    /\ cursor = 0
    /\ base = None
    /\ writers = {}

\* ------------------------------------------------------------ canvases
\* template.clone() / ImageBuffer::new: a fresh canvas nothing is drawn on yet.
NewCanvas(from) == [from |-> from, drawn |-> <<>>]

\* imageops::overlay(&mut base, img, x, y): draws img on base at (x, y).
overlay(canvas, img, x, y) ==
    [canvas EXCEPT !.drawn = Append(@, [img |-> img, x |-> x, y |-> y])]

\* DynamicImage::resize(nw, nh, Lanczos3): fit mode.
resize(img, d, nw, nh) ==
    LET wh == resize_dimensions(d[img][1], d[img][2], nw, nh, FALSE)
    IN  [src |-> img, w |-> wh[1], h |-> wh[2]]

\* Faulty variant of resize_to_fill: the image is fitted into the box.
resize_to_fit(img, d, nw, nh) ==
    LET wh == resize_dimensions(d[img][1], d[img][2], nw, nh, FALSE)
    IN  [src |-> img, w |-> wh[1], h |-> wh[2]]

\* DynamicImage::resize_to_fill(nw, nh, Lanczos3): the image is resized to
\* cover the box, then cropped to at most nw x nh.
resize_to_fill(img, d, nw, nh) ==
    LET wh == resize_dimensions(d[img][1], d[img][2], nw, nh, TRUE)
    IN  [src |-> img, w |-> Min(wh[1], nw), h |-> Min(wh[2], nh)]

\* The map closure of generate_atlas for slot i (lines 177-182).
SlotOverlay(ps, d, i) ==
    LET o == POSTER_OFFSETS[i + 1]
        resized_img == resize(ps[i + 1], d, o[3], o[4])
        x == sub_u32(o[1] + o[3], resized_img.w)
        y == o[2]
    IN  <<resized_img, <<x, y>>>>

\* Faulty variant of CollectIndexed: the results in reverse index order.
CollectInReverse(res) == [n \in 1..NumSlots |-> res[NumSlots - n]]

\* collect() of an indexed parallel iterator: results in index order.
CollectIndexed(res) == [n \in 1..NumSlots |-> res[n - 1]]

\* The for loop of generate_atlas over the first n collected overlays.
RECURSIVE OverlayAll(_, _, _)
OverlayAll(canvas, ovs, n) ==
    IF n = 0 THEN canvas
    ELSE LET ov == ovs[n]
         IN  overlay(OverlayAll(canvas, ovs, n - 1), ov[1], ov[2][1], ov[2][2])

generate_atlas(template, ps, d) ==
    OverlayAll(NewCanvas(template),
               CollectIndexed([k \in Slots |-> SlotOverlay(ps, d, k)]),
               NumSlots)

generate_tips(poster, d) ==
    LET resized_poster == resize(poster, d, 796, 1024)
        x == sub_u32(796, resized_poster.w)
    IN  overlay(NewCanvas(<<796, 1024>>), resized_poster, x, 0)

generate_painting(template, poster, d) ==
    overlay(NewCanvas(template), resize_to_fill(poster, d, 243, 324), 264, 19)

\* Faulty variant of Window: indices past the end are clamped to the last one.
WindowClamped(i, img_count) ==
    [n \in 1..NumSlots |-> Min(i + n - 1, img_count - 1)]

\* Faulty variant of Window: the modulo is left out.
WindowNoWrap(i, img_count) == [n \in 1..NumSlots |-> i + n - 1]

\* The store indices of the 5 posters handed to generate_atlas for output
\* index i of a store of img_count images (lines 127-133).
Window(i, img_count) ==
    << i % img_count,
       (i + 1) % img_count,
       (i + 2) % img_count,
       (i + 3) % img_count,
       (i + 4) % img_count >>

\* &input_imgs[j] for every j of js: the images, or a panic.
AllInBounds(imgs, js) == \A n \in DOMAIN js : InBounds(imgs, js[n])
IndexAll(imgs, js) == [n \in DOMAIN js |-> Index(imgs, js[n])]

\* ------------------------------------------------------------ startup
\* No generator task exists before generate_assets runs.
NoWorkers == [i \in {} |-> "start"]
NoTasks == [i \in {} |-> [v \in VariantSet |-> "unspawned"]]

\* The directories an input directory of at most MaxPaths entries can be.
RECURSIVE SeqsUpTo(_, _)
SeqsUpTo(S, n) ==
    IF n = 0 THEN {<<>>}
    ELSE LET shorter == SeqsUpTo(S, n - 1)
         IN  shorter \cup {Append(q, e) : q \in {r \in shorter : Len(r) = n - 1}, e \in S}

Init ==
    /\ pc = "create_posters_dir"
    /\ exitStatus = "running"
    /\ failure = None
    /\ summary = FALSE
    /\ dirs = {}
    /\ templates = {}
    /\ dirEntries \in SeqsUpTo(BOOLEAN, MaxPaths)
    /\ decoded = [p \in 1..Len(dirEntries) |-> "pending"]
    /\ input_imgs = <<>>
    /\ dims = [p \in 1..Len(dirEntries) |-> DefaultShape]
    /\ bar = None
    /\ worker = NoWorkers
    /\ task = NoTasks
    /\ files = {}
    /\ nwrites = [d \in OutDirs |-> 0]
    /\ AtlasIdle

\* Faulty variant of UnwrapOrPanic: the error is ignored.
UnwrapOrIgnore(ok, next) == next

\* unwrap_or_else(|e| panic!(..)): go on with the value, or panic.
UnwrapOrPanic(ok, next) == IF ok THEN next ELSE "aborted"

\* A panic on the main thread before generate_assets: message and exit status.
StartupStep(here, next, what, ok) ==
    /\ pc = here
    /\ pc' = UnwrapOrPanic(ok, next)
    /\ failure' = IF ok THEN failure ELSE what
    /\ exitStatus' = IF ok THEN exitStatus ELSE "failure"

create_dir_and_get_path(here, sub_path, next) ==
    \E ok \in BOOLEAN :
        /\ StartupStep(here, next, "create_dir", ok)
        /\ dirs' = IF ok THEN dirs \cup {sub_path} ELSE dirs
        /\ UNCHANGED <<summary, templates, dirEntries, decoded, bar, worker, task,
                       files, nwrites, input_imgs, dims, atlasVars>>

CreatePostersDir ==
    create_dir_and_get_path("create_posters_dir", POSTERS_OUT_DIR, "create_tips_dir")
CreateTipsDir ==
    create_dir_and_get_path("create_tips_dir", TIPS_OUT_DIR, "create_paintings_dir")
CreatePaintingsDir ==
    create_dir_and_get_path("create_paintings_dir", PAINTINGS_OUT_DIR, "open_poster")

\* image::open(template path) of main, lines 48-51.
OpenTemplate(here, name, next) ==
    \E ok \in BOOLEAN :
        /\ StartupStep(here, next, "open_template", ok)
        /\ templates' = IF ok THEN templates \cup {name} ELSE templates
        /\ UNCHANGED <<summary, dirs, dirEntries, decoded, bar, worker, task,
                       files, nwrites, input_imgs, dims, atlasVars>>

OpenPosterTemplate == OpenTemplate("open_poster", TEMPLATE_POSTER, "open_painting")
OpenPaintingTemplate == OpenTemplate("open_painting", TEMPLATE_PAINTING, "read_dir")

\* ------------------------------------------------------------ load_input_imgs
\* std::fs::read_dir(input_dir), lines 86-95.
ReadDir ==
    \E ok \in BOOLEAN :
        /\ StartupStep("read_dir", "decode", "read_dir", ok)
        /\ UNCHANGED <<summary, dirs, templates, dirEntries, decoded, bar, worker,
                       task, files, nwrites, input_imgs, dims, atlasVars>>

\* Faulty variant of DecodeResult: a file that does not decode is kept.
DecodeKeepsAll(decodes) == "ok"

\* image::open(path).ok() of one entry.
DecodeResult(decodes) == IF decodes THEN "ok" ELSE "err"

\* One task of the par_iter().filter_map(..) of line 96-97.
Decode(p) ==
    /\ pc = "decode"
    /\ decoded[p] = "pending"
    /\ decoded' = [decoded EXCEPT ![p] = DecodeResult(dirEntries[p])]
    /\ UNCHANGED <<pc, exitStatus, failure, summary, dirs, templates, dirEntries,
                   bar, worker, task, files, nwrites, input_imgs, dims, atlasVars>>

\* filter_map + collect: the images of the first n entries that decoded, in order.
RECURSIVE CollectOk(_, _)
CollectOk(dec, n) ==
    IF n = 0 THEN <<>>
    ELSE IF dec[n] = "ok" THEN Append(CollectOk(dec, n - 1), n)
    ELSE CollectOk(dec, n - 1)

\* collect() returns once every entry was tried; main then calls generate_assets.
LoadCollect ==
    /\ pc = "decode"
    /\ \A p \in DOMAIN decoded : decoded[p] # "pending"
    /\ input_imgs' = CollectOk(decoded, Len(dirEntries))
    /\ pc' = "generate_assets"
    /\ UNCHANGED <<exitStatus, failure, summary, dirs, templates, dirEntries,
                   decoded, bar, worker, task, files, nwrites, dims, atlasVars>>

\* ------------------------------------------------------------ generate_assets
Indices == 0 .. Len(input_imgs) - 1

\* Lines 110-112: the bar is created with the store's length; the parallel
\* loop then has one closure per index of the store.
GenerateAssetsBegin ==
    /\ pc = "generate_assets"
    /\ bar' = [len |-> Len(input_imgs), pos |-> 0, finished |-> FALSE]
    /\ worker' = [i \in Indices |-> "start"]
    /\ task' = [i \in Indices |-> [v \in VariantSet |-> "unspawned"]]
    /\ pc' = "for_each"
    /\ UNCHANGED <<exitStatus, failure, summary, dirs, templates, dirEntries,
                   decoded, files, nwrites, input_imgs, dims, atlasVars>>

\* s.spawn(..) inside the scope of index i: the task may run from now on.
Spawn(i, v, from, to) ==
    /\ pc = "for_each"
    /\ worker[i] = from
    /\ worker' = [worker EXCEPT ![i] = to]
    /\ task' = [task EXCEPT ![i][v] = "pending"]
    /\ UNCHANGED <<pc, exitStatus, failure, summary, dirs, templates, dirEntries,
                   decoded, bar, files, nwrites, input_imgs, dims, atlasVars>>

SpawnAtlas(i) == Spawn(i, "atlas", "start", "spawned_atlas")
SpawnTips(i) == Spawn(i, "tips", "spawned_atlas", "spawned_tips")
SpawnPainting(i) == Spawn(i, "painting", "spawned_tips", "spawned_painting")

\* Faulty variant of inc: counts every sub-task of the index.
incPerTask(pos, delta) == pos + Len(Variants) * delta

\* ProgressBar::inc(delta): an atomic add to the position.
inc(pos, delta) == pos + delta

\* Line 154: the last statement of the scope closure, run by the thread that
\* spawned the three tasks, whatever state those tasks are in.
BarInc(i) ==
    /\ pc = "for_each"
    /\ worker[i] = "spawned_painting"
    /\ bar' = [bar EXCEPT !.pos = inc(@, 1)]
    /\ worker' = [worker EXCEPT ![i] = "waiting"]
    /\ UNCHANGED <<pc, exitStatus, failure, summary, dirs, templates, dirEntries,
                   decoded, task, files, nwrites, input_imgs, dims, atlasVars>>

\* Faulty variant of TaskPath: the file is named after the bar's position.
TaskPathByCounter(i, v) == get_path(OutDir(v), <<bar.pos, ".png">>)

\* The path a variant task of index i saves to (lines 117-120).
TaskPath(i, v) == get_path(OutDir(v), ImgName(i))

\* Faulty variant of ReadOnly: the callee takes the value out.
TakenOut(shared) == <<>>

\* What a generator leaves of an input it is handed by shared reference
\* (&DynamicImage, lines 170, 194, 208): the value as it was.
ReadOnly(shared) == shared

\* The end of a variant task: save_with_format(..) wrote the file, or the task
\* panics (a failed save, or a panic while generating). A failed save is taken
\* to leave no file behind.
TaskEnds(i, v, ok, canvas, what) ==
    /\ task' = [task EXCEPT ![i][v] = IF ok THEN "done" ELSE "failed"]
    /\ files' = IF ok THEN files \cup {[path |-> TaskPath(i, v), content |-> canvas]}
                ELSE files
    /\ nwrites' = IF ok THEN [nwrites EXCEPT ![OutDir(v)] = @ + 1] ELSE nwrites
    /\ failure' = IF ok THEN failure ELSE what
    /\ input_imgs' = ReadOnly(input_imgs)
    /\ dims' = ReadOnly(dims)
    /\ UNCHANGED <<pc, exitStatus, summary, dirs, templates, dirEntries, decoded,
                   bar, worker, atlasVars>>

\* Lines 124-137.
AtlasTask(i) ==
    /\ pc = "for_each"
    /\ task[i]["atlas"] = "pending"
    /\ LET js == Window(i, Len(input_imgs))
       IN  IF ~AllInBounds(input_imgs, js)
           THEN TaskEnds(i, "atlas", FALSE, None, "index")
           ELSE \E ok \in BOOLEAN :
                    TaskEnds(i, "atlas", ok,
                             generate_atlas(TEMPLATE_POSTER,
                                            IndexAll(input_imgs, js), dims),
                             "write")

\* Lines 140-144.
TipsTask(i) ==
    /\ pc = "for_each"
    /\ task[i]["tips"] = "pending"
    /\ LET j == i % Len(input_imgs)
       IN  IF ~InBounds(input_imgs, j)
           THEN TaskEnds(i, "tips", FALSE, None, "index")
           ELSE \E ok \in BOOLEAN :
                    TaskEnds(i, "tips", ok,
                             generate_tips(Index(input_imgs, j), dims), "write")

\* Lines 147-151.
PaintingTask(i) ==
    /\ pc = "for_each"
    /\ task[i]["painting"] = "pending"
    /\ LET j == i % Len(input_imgs)
       IN  IF ~InBounds(input_imgs, j)
           THEN TaskEnds(i, "painting", FALSE, None, "index")
           ELSE \E ok \in BOOLEAN :
                    TaskEnds(i, "painting", ok,
                             generate_painting(TEMPLATE_PAINTING,
                                               Index(input_imgs, j), dims),
                             "write")

\* Faulty variant of Finished: a task counts as ended once it is spawned.
Spawned(t) == t # "unspawned"

\* A spawned task has ended.
Finished(t) == t \in {"done", "failed"}

\* Faulty variant of ScopeOutcome: the scope goes on waiting.
ScopeNeverReturns(tasks) == "waiting"

\* Faulty variant of ScopeOutcome: a task's panic is dropped.
ScopeSwallowsPanic(tasks) == "joined"

\* rayon::scope returns when the closure and every spawned task have ended,
\* and then resumes the panic of a task that panicked.
ScopeOutcome(tasks) ==
    IF \E v \in VariantSet : tasks[v] = "failed" THEN "panicked" ELSE "joined"

ScopeEnd(i) ==
    /\ pc = "for_each"
    /\ worker[i] = "waiting"
    /\ \A v \in VariantSet : Finished(task[i][v])
    /\ worker' = [worker EXCEPT ![i] = ScopeOutcome(task[i])]
    /\ UNCHANGED <<pc, exitStatus, failure, summary, dirs, templates, dirEntries,
                   decoded, bar, task, files, nwrites, input_imgs, dims, atlasVars>>

\* for_each returns when every closure has ended; a panic of one of them is
\* resumed on the main thread, which ends the process with a failure status.
ForEachJoin ==
    /\ pc = "for_each"
    /\ \A i \in DOMAIN worker : worker[i] \in {"joined", "panicked"}
    /\ IF \E i \in DOMAIN worker : worker[i] = "panicked"
       THEN pc' = "aborted" /\ exitStatus' = "failure"
       ELSE pc' = "finish" /\ exitStatus' = exitStatus
    /\ UNCHANGED <<failure, summary, dirs, templates, dirEntries, decoded, bar,
                   worker, task, files, nwrites, input_imgs, dims, atlasVars>>

\* A build with panic = "abort" ends the process at the panic itself, while
\* other tasks are still pending or running.
PanicAbort ==
    /\ pc = "for_each"
    /\ \E i \in DOMAIN task : \E v \in VariantSet : task[i][v] = "failed"
    /\ pc' = "aborted"
    /\ exitStatus' = "failure"
    /\ UNCHANGED <<failure, summary, dirs, templates, dirEntries, decoded, bar,
                   worker, task, files, nwrites, input_imgs, dims, atlasVars>>

\* Line 159.
BarFinish ==
    /\ pc = "finish"
    /\ bar' = [bar EXCEPT !.finished = TRUE]
    /\ pc' = "summary"
    /\ UNCHANGED <<exitStatus, failure, summary, dirs, templates, dirEntries,
                   decoded, worker, task, files, nwrites, input_imgs, dims,
                   atlasVars>>

\* Lines 64-68: the summary, then main returns.
PrintSummary ==
    /\ pc = "summary"
    /\ summary' = TRUE
    /\ pc' = "exited"
    /\ exitStatus' = "success"
    /\ UNCHANGED <<failure, dirs, templates, dirEntries, decoded, bar, worker,
                   task, files, nwrites, input_imgs, dims, atlasVars>>

Next ==
    \/ CreatePostersDir
    \/ CreateTipsDir
    \/ CreatePaintingsDir
    \/ OpenPosterTemplate
    \/ OpenPaintingTemplate
    \/ ReadDir
    \/ \E p \in DOMAIN decoded : Decode(p)
    \/ LoadCollect
    \/ GenerateAssetsBegin
    \/ \E i \in DOMAIN worker : SpawnAtlas(i)
    \/ \E i \in DOMAIN worker : SpawnTips(i)
    \/ \E i \in DOMAIN worker : SpawnPainting(i)
    \/ \E i \in DOMAIN worker : BarInc(i)
    \/ \E i \in DOMAIN worker : AtlasTask(i)
    \/ \E i \in DOMAIN worker : TipsTask(i)
    \/ \E i \in DOMAIN worker : PaintingTask(i)
    \/ \E i \in DOMAIN worker : ScopeEnd(i)
    \/ ForEachJoin
    \/ PanicAbort
    \/ BarFinish
    \/ PrintSummary

Spec == Init /\ [][Next]_vars

\* ------------------------------------------------------------ generate_atlas
\* generate_assets is in its parallel loop over a store of 1..MaxStore images
\* of any of the shapes; no variant task has run yet.
InitAtlas ==
    /\ \E n \in 1..MaxStore :
        /\ dirEntries = [p \in 1..n |-> TRUE]
        /\ decoded = [p \in 1..n |-> "ok"]
        /\ input_imgs = [p \in 1..n |-> p]
        /\ dims \in [1..n -> Shapes]
        /\ bar = [len |-> n, pos |-> 0, finished |-> FALSE]
        /\ worker = [i \in 0..n - 1 |-> "start"]
        /\ task = [i \in 0..n - 1 |-> [v \in VariantSet |-> "unspawned"]]
    /\ pc = "for_each"
    /\ exitStatus = "running"
    /\ failure = None
    /\ summary = FALSE
    /\ dirs = OutDirs
    /\ templates = {TEMPLATE_POSTER, TEMPLATE_PAINTING}
    /\ files = {}
    /\ nwrites = [d \in OutDirs |-> 0]
    /\ AtlasIdle

\* The atlas task of output index i builds the 5 posters and enters
\* generate_atlas, whose first statement clones the template (lines 125-134, 171).
AtlasEnter(i) ==
    /\ apc = "idle"
    /\ aidx' = i
    /\ LET js == Window(i, Len(input_imgs))
       IN  IF AllInBounds(input_imgs, js)
           THEN /\ posters' = IndexAll(input_imgs, js)
                /\ base' = NewCanvas(TEMPLATE_POSTER)
                /\ apc' = "resizing"
           ELSE /\ apc' = "panicked"
                /\ UNCHANGED <<posters, base>>
    /\ UNCHANGED <<runVars, input_imgs, dims, resized, last_done, overlays,
                   cursor, writers>>

\* One task of POSTER_OFFSETS.par_iter().enumerate().map(..), lines 175-182.
ResizeSlot(k) ==
    /\ apc = "resizing"
    /\ resized[k] = <<>>
    /\ resized' = [resized EXCEPT ![k] = SlotOverlay(posters, dims, k)]
    /\ last_done' = {k}
    /\ UNCHANGED <<runVars, input_imgs, dims, aidx, posters, apc, overlays,
                   cursor, base, writers>>

\* Faulty variant of JoinAll: collect returns after the first result.
JoinAny(res) == \E k \in Slots : res[k] # <<>>

\* collect() returns once every task of the parallel iterator has ended.
JoinAll(res) == \A k \in Slots : res[k] # <<>>

\* Line 183: the Vec of the 5 results.
Collect ==
    /\ apc = "resizing"
    /\ JoinAll(resized)
    /\ overlays' = CollectIndexed(resized)
    /\ cursor' = 0
    /\ apc' = "merging"
    /\ UNCHANGED <<runVars, input_imgs, dims, aidx, posters, resized, last_done,
                   base, writers>>

\* Lines 187-188: the loop takes the next element and calls overlay on base.
BeginOverlay ==
    /\ apc = "merging"
    /\ cursor < Len(overlays)
    /\ writers' = writers \cup {cursor}
    /\ apc' = "overlaying"
    /\ UNCHANGED <<runVars, input_imgs, dims, aidx, posters, resized, last_done,
                   overlays, cursor, base>>

\* overlay returns: the element is drawn on base.
EndOverlay ==
    /\ apc = "overlaying"
    /\ LET ov == overlays[cursor + 1]
       IN  base' = overlay(base, ov[1], ov[2][1], ov[2][2])
    /\ writers' = writers \ {cursor}
    /\ cursor' = cursor + 1
    /\ apc' = "merging"
    /\ UNCHANGED <<runVars, input_imgs, dims, aidx, posters, resized, last_done,
                   overlays>>

\* Line 191: the loop is over, base is returned.
AtlasReturn ==
    /\ apc = "merging"
    /\ cursor = Len(overlays)
    /\ apc' = "returned"
    /\ UNCHANGED <<runVars, input_imgs, dims, aidx, posters, resized, last_done,
                   overlays, cursor, base, writers>>

NextAtlas ==
    \/ \E i \in DOMAIN worker : AtlasEnter(i)
    \/ \E k \in Slots : ResizeSlot(k)
    \/ Collect
    \/ BeginOverlay
    \/ EndOverlay
    \/ AtlasReturn

SpecAtlas == InitAtlas /\ [][NextAtlas]_vars

\* The stepwise generate_atlas returns what the one-step generate_atlas of
\* specification Spec computes.
AtlasStepsAgree ==
    apc = "returned" => base = generate_atlas(TEMPLATE_POSTER, posters, dims)

\* ------------------------------------------------------------ claims
Range(q) == {q[n] : n \in DOMAIN q}
StartupFailures == {"create_dir", "open_template", "read_dir"}

\* load_input_imgs has returned: the store is what generation runs over.
StoreLoaded ==
    \/ pc \in {"generate_assets", "for_each", "finish", "summary", "exited"}
    \/ pc = "aborted" /\ failure \notin StartupFailures

\* generate_assets has created the bar and entered its parallel loop.
BarExists == StoreLoaded /\ pc # "generate_assets"

\* generate_assets has returned to main.
Returned == pc \in {"finish", "summary", "exited"}

\* The closure of index i has run bar.inc(1).
Counted(i) == worker[i] \in {"waiting", "joined", "panicked"}

TaskFailed == \E i \in DOMAIN task : \E v \in VariantSet : task[i][v] = "failed"

\* The names of the files written into directory dir.
NamesIn(dir) == {f.path[2] : f \in {g \in files : g.path[1] = dir}}

\* C1: when generate_assets has returned over N >= 1 images, each of the three
\* output directories holds exactly the N files 0.png .. (N-1).png, and each
\* was written once (N saves per directory, 3N files in all).
C1_ExactlyNFilesPerDir ==
    (Returned /\ Len(input_imgs) >= 1) =>
        /\ \A v \in VariantSet :
            /\ NamesIn(OutDir(v)) = {<<i, ".png">> : i \in 0 .. Len(input_imgs) - 1}
            /\ nwrites[OutDir(v)] = Len(input_imgs)
        /\ Cardinality(files) = 3 * Len(input_imgs)

C1_Witness ==
    /\ pc = "exited"
    /\ Len(input_imgs) >= 2
    /\ Cardinality(files) = 3 * Len(input_imgs)

\* C2: when the store is empty the run ends in a fatal error: no file is
\* written, the summary is not printed and the exit status is not success.
C2_EmptyStoreIsFatal ==
    (StoreLoaded /\ Len(input_imgs) = 0) =>
        /\ files = {}
        /\ ~summary
        /\ exitStatus # "success"

\* C3: an index is counted on the progress bar only when its three variant
\* tasks have all ended.
C3_CountedOnlyWhenAllDone ==
    \A i \in DOMAIN worker :
        Counted(i) => \A v \in VariantSet : Finished(task[i][v])

\* C4: the bar's position is the number of indices whose closure has counted,
\* one per index: it never exceeds N, and it is N when generate_assets returns.
C4_CountedOncePerIndex ==
    BarExists =>
        /\ bar.len = Len(input_imgs)
        /\ bar.pos = Cardinality({i \in DOMAIN worker : Counted(i)})
        /\ bar.pos <= Len(input_imgs)
        /\ Returned => bar.pos = Len(input_imgs)

C4_Witness ==
    /\ pc = "exited"
    /\ Len(input_imgs) >= 2
    /\ bar.pos = Len(input_imgs)

\* C5: in generate_atlas no overlay onto base has started before all 5 resizes
\* have completed, and base never has two writers at once.
C5_BarrierThenOneWriter ==
    /\ (writers # {} \/ cursor > 0 \/ apc \in {"overlaying", "returned"}) =>
           \A k \in Slots : resized[k] # <<>>
    /\ Cardinality(writers) <= 1

C5_Witness ==
    /\ apc = "overlaying"
    /\ writers = {2}
    /\ last_done = {0}

\* C6: the n-th overlay drawn on base is the one of slot n (table order),
\* whatever order the resizes finished in: it is the resize of source image n
\* into slot n's box, drawn at slot n's right edge minus its width and slot
\* n's y; the loop draws one overlay per iteration, 5 in all.
C6_OverlaysInTableOrder ==
    apc \in {"merging", "overlaying", "returned"} =>
        /\ Len(base.drawn) = cursor
        /\ apc = "returned" => cursor = NumSlots
        /\ \A n \in 1 .. Len(base.drawn) :
            LET o == POSTER_OFFSETS[n]
                d == base.drawn[n]
            IN  /\ d.img.src = posters[n]
                /\ d.img = resize(posters[n], dims, o[3], o[4])
                /\ d.x + d.img.w = o[1] + o[3]
                /\ d.y = o[2]

C6_Witness ==
    /\ apc = "returned"
    /\ last_done = {0}
    /\ Len(base.drawn) = NumSlots
    /\ base.drawn[1].y = 0 /\ base.drawn[5].y = 320

\* C7: the atlas of output index i gets in slot k the store image of index
\* (i + k) mod N, which is an index of the store: building the 5 posters
\* never panics, also when N < 5 and the indices wrap.
C7_SlotSourceIsModulo ==
    apc # "idle" =>
        /\ apc # "panicked"
        /\ \A k \in Slots :
            LET j == (aidx + k) % Len(input_imgs)
            IN  /\ j \in 0 .. Len(input_imgs) - 1
                /\ posters[k + 1] = input_imgs[j + 1]

C7_Witness ==
    /\ apc = "returned"
    /\ Len(input_imgs) = 2
    /\ aidx = 1
    /\ posters = <<2, 1, 2, 1, 2>>

\* C8: a run that reached generation ends in one of two ways: success, with
\* the summary printed, no task failed and all 3N files written, or failure,
\* with a failed task and no summary. Once a task has failed the bar is never
\* finished, the summary is never printed and main never goes on.
C8_CompleteOrAbort ==
    /\ (BarExists /\ pc \in {"exited", "aborted"}) =>
           \/ /\ pc = "exited"
              /\ exitStatus = "success"
              /\ summary
              /\ ~TaskFailed
              /\ Cardinality(files) = 3 * Len(input_imgs)
           \/ /\ pc = "aborted"
              /\ exitStatus = "failure"
              /\ ~summary
              /\ TaskFailed
    /\ TaskFailed =>
           /\ ~summary
           /\ ~bar.finished
           /\ pc \in {"for_each", "aborted"}
           /\ exitStatus # "success"

C8_Witness ==
    /\ pc = "aborted"
    /\ TaskFailed
    /\ files # {}
    /\ \A i \in DOMAIN worker : worker[i] \in {"joined", "panicked"}

\* C9: after a startup failure (an output directory, a template or the input
\* directory) the run is aborted with a failure status, no generator task is
\* ever dispatched and no file is ever written.
C9_StartupFailureAborts ==
    failure \in StartupFailures =>
        /\ pc = "aborted"
        /\ exitStatus = "failure"
        /\ DOMAIN worker = {}
        /\ DOMAIN task = {}
        /\ files = {}
        /\ \A d \in OutDirs : nwrites[d] = 0
        /\ ~summary

C9_Witness ==
    /\ failure = "read_dir"
    /\ pc = "aborted"
    /\ dirs = OutDirs
    /\ templates = {TEMPLATE_POSTER, TEMPLATE_PAINTING}

\* C10: a file that fails to decode is skipped and does not abort the run: the
\* store holds exactly one image per entry that decodes and none for one that
\* does not, and generation runs over exactly those N images.
C10_DecodeFailuresSkipped ==
    /\ pc = "aborted" => failure # None
    /\ StoreLoaded =>
        /\ Range(input_imgs) = {p \in DOMAIN dirEntries : dirEntries[p]}
        /\ Len(input_imgs) = Cardinality({p \in DOMAIN dirEntries : dirEntries[p]})
        /\ BarExists =>
            /\ DOMAIN worker = 0 .. Len(input_imgs) - 1
            /\ bar.len = Len(input_imgs)

C10_Witness ==
    /\ pc = "exited"
    /\ dirEntries = <<FALSE, TRUE>>
    /\ input_imgs = <<2>>
    /\ Cardinality(files) = 3

\* The store as the input directory alone determines it: its size, and the
\* image at store index j (the (j+1)-th entry that decodes, in directory order).
NStore == Cardinality({p \in DOMAIN dirEntries : dirEntries[p]})
StoreImage(j) ==
    CHOOSE p \in DOMAIN dirEntries :
        /\ dirEntries[p]
        /\ Cardinality({q \in 1 .. p : dirEntries[q]}) = j + 1

\* What the inputs alone say each output of index i holds.
ExpectedAtlas(i) ==
    [from |-> TEMPLATE_POSTER,
     drawn |-> [n \in 1 .. NumSlots |->
        LET o == POSTER_OFFSETS[n]
            img == resize(StoreImage((i + n - 1) % NStore), dims, o[3], o[4])
        IN  [img |-> img, x |-> o[1] + o[3] - img.w, y |-> o[2]]]]
ExpectedTips(i) ==
    LET img == resize(StoreImage(i), dims, 796, 1024)
    IN  [from |-> <<796, 1024>>,
         drawn |-> <<[img |-> img, x |-> 796 - img.w, y |-> 0]>>]
ExpectedPainting(i) ==
    [from |-> TEMPLATE_PAINTING,
     drawn |-> <<[img |-> [src |-> StoreImage(i), w |-> 243, h |-> 324],
                  x |-> 264, y |-> 19]>>]
Expected(v, i) ==
    CASE v = "atlas" -> ExpectedAtlas(i)
      [] v = "tips" -> ExpectedTips(i)
      [] v = "painting" -> ExpectedPainting(i)

\* C11: the content of every output file <variant>/<i>.png is fixed by the
\* inputs (the input directory, the image sizes, the templates) and by i alone,
\* in every state of every interleaving of the decode tasks, the index closures
\* and the variant tasks; so two runs on the same inputs write the same
\* files. The canvas the stepwise generate_atlas returns is fixed the same
\* way, whatever order its resizes finish in.
C11_OutputsFixedByInputs ==
    /\ \A f \in files :
        \E v \in VariantSet : \E i \in 0 .. NStore - 1 :
            /\ f.path = <<OutDir(v), <<i, ".png">>>>
            /\ f.content = Expected(v, i)
    /\ apc = "returned" => base = ExpectedAtlas(aidx)

C11_Witness ==
    /\ pc = "exited"
    /\ NStore >= 2
    /\ Cardinality(files) = 3 * NStore
    /\ \E f \in files : f.path = <<POSTERS_OUT_DIR, <<1, ".png">>>>
                        /\ f.content.drawn[2].img.src = StoreImage(0)

\* ------------------------------------------------------------ the generators
\* The sides a source image can have: tiny ones and large ones, so that both
\* extreme and ordinary aspect ratios occur.
SideSet == (1 .. MaxSide) \cup {500 * s : s \in 1 .. MaxSide}

\* generate_assets is in its parallel loop over a store of one image of any
\* width and height of SideSet; no variant task has run yet.
InitGen ==
    /\ dirEntries = <<TRUE>>
    /\ decoded = <<"ok">>
    /\ input_imgs = <<1>>
    /\ dims \in [{1} -> SideSet \X SideSet]
    /\ bar = [len |-> 1, pos |-> 0, finished |-> FALSE]
    /\ worker = [i \in {0} |-> "start"]
    /\ task = [i \in {0} |-> [v \in VariantSet |-> "unspawned"]]
    /\ pc = "for_each"
    /\ exitStatus = "running"
    /\ failure = None
    /\ summary = FALSE
    /\ dirs = OutDirs
    /\ templates = {TEMPLATE_POSTER, TEMPLATE_PAINTING}
    /\ files = {}
    /\ nwrites = [d \in OutDirs |-> 0]
    /\ AtlasIdle

\* The tips task of index i calls generate_tips (line 141, 194-206).
TipsCall(i) ==
    /\ apc = "idle"
    /\ aidx' = i
    /\ base' = generate_tips(Index(input_imgs, i % Len(input_imgs)), dims)
    /\ apc' = "tips_returned"
    /\ UNCHANGED <<runVars, input_imgs, dims, posters, resized, last_done,
                   overlays, cursor, writers>>

\* The painting task of index i calls generate_painting (line 148, 208-218).
PaintingCall(i) ==
    /\ apc = "idle"
    /\ aidx' = i
    /\ base' = generate_painting(TEMPLATE_PAINTING,
                                 Index(input_imgs, i % Len(input_imgs)), dims)
    /\ apc' = "painting_returned"
    /\ UNCHANGED <<runVars, input_imgs, dims, posters, resized, last_done,
                   overlays, cursor, writers>>

NextGen ==
    \/ \E i \in DOMAIN worker : AtlasEnter(i)
    \/ \E k \in Slots : ResizeSlot(k)
    \/ Collect
    \/ BeginOverlay
    \/ EndOverlay
    \/ AtlasReturn
    \/ \E i \in DOMAIN worker : TipsCall(i)
    \/ \E i \in DOMAIN worker : PaintingCall(i)

SpecGen == InitGen /\ [][NextGen]_vars

\* C12: every fit-mode placement is right- and top-aligned in its box without
\* underflow: the resized width rw is in 1 .. box width, x is box.x + box.width
\* - rw as a plain integer, box.x <= x, x + rw is the box's right edge and y is
\* box.y; for each of the 5 atlas slots and for the tips box (0, 0, 796, 1024).
C12_RightTopAligned ==
    /\ \A k \in Slots :
        resized[k] # <<>> =>
            LET o == POSTER_OFFSETS[k + 1]
                rw == resized[k][1].w
                x == resized[k][2][1]
                y == resized[k][2][2]
            IN  /\ rw \in 1 .. o[3]
                /\ x = o[1] + o[3] - rw
                /\ o[1] <= x
                /\ x + rw = o[1] + o[3]
                /\ y = o[2]
    /\ apc = "tips_returned" =>
        LET d == base.drawn[1]
        IN  /\ d.img.w \in 1 .. 796
            /\ d.x = 796 - d.img.w
            /\ 0 <= d.x
            /\ d.x + d.img.w = 796
            /\ d.y = 0

C12_Witness ==
    /\ apc = "resizing"
    /\ resized[0] # <<>>
    /\ resized[0][1].w = 1
    /\ resized[0][2] = <<340, 0>>

\* generate_atlas has collected its overlays: base holds what was drawn so far.
Merging == apc \in {"merging", "overlaying", "returned"}

\* C13: every slot of POSTER_OFFSETS lies within a 1013 x 1015 poster
\* template (x + width <= 1013, y + height <= 1015), and so does every overlay
\* generate_atlas draws.
C13_SlotsInsideTemplate ==
    /\ \A n \in 1 .. NumSlots :
        LET o == POSTER_OFFSETS[n]
        IN  /\ o[1] >= 0 /\ o[2] >= 0
            /\ o[1] + o[3] <= 1013
            /\ o[2] + o[4] <= 1015
    /\ Merging =>
        \A n \in 1 .. Len(base.drawn) :
            LET d == base.drawn[n]
            IN  /\ d.x >= 0 /\ d.y >= 0
                /\ d.x + d.img.w <= 1013
                /\ d.y + d.img.h <= 1015

C13_Witness ==
    /\ apc = "returned"
    /\ base.drawn[5].x + base.drawn[5].img.w = 1004
    /\ base.drawn[5].y + base.drawn[5].img.h = 992

\* Two rectangles <<x, y, width, height>> share a pixel.
RectsMeet(a, b) ==
    /\ a[1] < b[1] + b[3] /\ b[1] < a[1] + a[3]
    /\ a[2] < b[2] + b[4] /\ b[2] < a[2] + a[4]

\* The rectangle an overlay covers.
RectOf(d) == <<d.x, d.y, d.img.w, d.img.h>>

\* C14: no two distinct slots of POSTER_OFFSETS share a pixel, and neither do
\* two overlays generate_atlas draws.
C14_SlotsDisjoint ==
    /\ \A m, n \in 1 .. NumSlots :
        m # n => ~RectsMeet(POSTER_OFFSETS[m], POSTER_OFFSETS[n])
    /\ Merging =>
        \A m, n \in 1 .. Len(base.drawn) :
            m # n => ~RectsMeet(RectOf(base.drawn[m]), RectOf(base.drawn[n]))

C14_Witness ==
    /\ apc = "returned"
    /\ Len(base.drawn) = NumSlots
    /\ \A n \in 1 .. NumSlots : base.drawn[n].img.w = POSTER_OFFSETS[n][3]

\* C15: generate_painting draws exactly one block, of exactly 243 x 324, at
\* (264, 19), whatever the size of the source image; it covers columns 264..506
\* and rows 19..342, inside a template of 507 x 343 or more.
C15_PaintingBlockFixed ==
    apc = "painting_returned" =>
        /\ base.from = TEMPLATE_PAINTING
        /\ Len(base.drawn) = 1
        /\ LET d == base.drawn[1]
           IN  /\ d.img.w = 243 /\ d.img.h = 324
               /\ d.x = 264 /\ d.y = 19
               /\ d.x + d.img.w - 1 = 506
               /\ d.y + d.img.h - 1 = 342
               /\ d.x + d.img.w <= 507
               /\ d.y + d.img.h <= 343

C15_Witness ==
    /\ apc = "painting_returned"
    /\ dims[1] = <<1, 1500>>
    /\ base.drawn[1].img = [src |-> 1, w |-> 243, h |-> 324]

\* C16: while the generators run, no step changes the store (its images and
\* their sizes) or the templates: every generator draws on a canvas of its own.
C16_InputsNeverMutated ==
    [][pc = "for_each" =>
           /\ input_imgs' = input_imgs
           /\ dims' = dims
           /\ templates' = templates]_vars

C16_Witness ==
    /\ pc = "exited"
    /\ Cardinality(files) = 6
    /\ input_imgs = <<1, 2>>
    /\ templates = {TEMPLATE_POSTER, TEMPLATE_PAINTING}
    /\ \A f \in files : f.content.drawn # <<>>

\* C17: the bar is finished and "Operation complete!" is printed only when all
\* N indices are complete: every closure has joined its scope and every one of
\* the 3N variant tasks has written its file.
C17_SummaryOnlyWhenAllDone ==
    /\ summary => BarExists
    /\ (BarExists /\ (bar.finished \/ summary)) =>
        /\ \A i \in DOMAIN worker : worker[i] = "joined"
        /\ \A i \in DOMAIN task : \A v \in VariantSet : task[i][v] = "done"
        /\ DOMAIN task = 0 .. Len(input_imgs) - 1
        /\ \A v \in VariantSet :
            NamesIn(OutDir(v)) = {<<i, ".png">> : i \in 0 .. Len(input_imgs) - 1}

C17_Witness ==
    /\ summary
    /\ bar.finished
    /\ Len(input_imgs) = 2
    /\ \A i \in DOMAIN task : \A v \in VariantSet : task[i][v] = "done"

\* The three generators, each called for any index of a store of 1..MaxStore
\* images.
SpecSelect == InitAtlas /\ [][NextGen]_vars

\* The output index a file name <<i, ".png">> stands for.
IndexOf(f) == f.path[2][1]

\* C18: for every slot k the map i -> (i + k) mod N from output indices to
\* store indices is a bijection, so every store image is in slot k of exactly
\* one atlas; and the tips, the painting and atlas slot 0 of output i all use
\* store image i.  (A map from 0..N-1 onto 0..N-1 is one-to-one.)
C18_SelectionIsBijection ==
    /\ (StoreLoaded /\ Len(input_imgs) >= 1) =>
        \A k \in Slots :
            LET N == Len(input_imgs)
            IN  {Window(i, N)[k + 1] : i \in 0 .. N - 1} = 0 .. N - 1
    /\ apc \in {"resizing", "merging", "overlaying", "returned"} =>
        posters[1] = input_imgs[aidx + 1]
    /\ apc \in {"tips_returned", "painting_returned"} =>
        base.drawn[1].img.src = input_imgs[aidx + 1]
    /\ \A f \in files : f.content.drawn[1].img.src = input_imgs[IndexOf(f) + 1]
    /\ Returned =>
        \A k \in Slots : \A img \in Range(input_imgs) :
            Cardinality({f \in files :
                            /\ f.path[1] = POSTERS_OUT_DIR
                            /\ f.content.drawn[k + 1].img.src = img}) = 1

C18_Witness ==
    /\ apc = "tips_returned"
    /\ Len(input_imgs) = 7
    /\ aidx = 6
    /\ base.drawn[1].img.src = 7

\* ------------------------------------------------------------ the merge, permuted
\* The merge loop of lines 187-189 taking the elements of the Vec in any
\* order: element n is taken out of the Vec and drawn on base.
DrawAny(n) ==
    /\ apc = "merging"
    /\ n \in 1..Len(overlays)
    /\ LET ov == overlays[n]
       IN  base' = overlay(base, ov[1], ov[2][1], ov[2][2])
    /\ overlays' = [m \in 1..Len(overlays) - 1 |->
                        IF m < n THEN overlays[m] ELSE overlays[m + 1]]
    /\ UNCHANGED <<runVars, input_imgs, dims, aidx, posters, apc, resized,
                   last_done, cursor, writers>>

NextMerge ==
    \/ \E i \in DOMAIN worker : AtlasEnter(i)
    \/ \E k \in Slots : ResizeSlot(k)
    \/ Collect
    \/ \E n \in 1..NumSlots : DrawAny(n)
    \/ AtlasReturn

SpecMerge == InitGen /\ [][NextMerge]_vars

\* The drawn image ov covers the pixel p.
Covers(ov, p) ==
    /\ ov.x <= p[1] /\ p[1] < ov.x + ov.img.w
    /\ ov.y <= p[2] /\ p[2] < ov.y + ov.img.h

\* What was drawn on the pixel p of the canvas, bottom first; the pixel's
\* value is the template's pixel with these blended over it in this order.
Layers(canvas, p) ==
    LET OnP(ov) == Covers(ov, p)
    IN  SelectSeq(canvas.drawn, OnP)

\* One pixel for each region the edges of the drawn images cut the plane
\* into: inside a region every pixel has the same layers.
Corners(canvas) ==
    LET ds == Range(canvas.drawn)
    IN  ({0} \cup {ov.x : ov \in ds} \cup {ov.x + ov.img.w : ov \in ds})
        \X ({0} \cup {ov.y : ov \in ds} \cup {ov.y + ov.img.h : ov \in ds})

\* The two canvases have the same value at every pixel.
SamePixels(a, b) ==
    /\ a.from = b.from
    /\ \A p \in Corners(a) \cup Corners(b) : Layers(a, p) = Layers(b, p)

\* C19: whatever the order the 5 overlays are applied in, the atlas has the
\* pixels of the atlas merged in table order, because no pixel is drawn on
\* twice.
C19_MergeOrderIrrelevant ==
    apc = "returned" =>
        /\ Len(base.drawn) = NumSlots
        /\ \A p \in Corners(base) : Len(Layers(base, p)) <= 1
        /\ SamePixels(base, generate_atlas(TEMPLATE_POSTER, posters, dims))

C19_Witness ==
    /\ apc = "returned"
    /\ base.drawn[1].y = 620
    /\ base.drawn[5].y = 58
    /\ base # generate_atlas(TEMPLATE_POSTER, posters, dims)

\* ------------------------------------------------------------ termination
\* The steps the main thread and the pool take while the process is alive:
\* every step of Next but the abort at the panic itself, which only a build
\* with panic = "abort" has.
Unwind ==
    \/ CreatePostersDir
    \/ CreateTipsDir
    \/ CreatePaintingsDir
    \/ OpenPosterTemplate
    \/ OpenPaintingTemplate
    \/ ReadDir
    \/ \E p \in DOMAIN decoded : Decode(p)
    \/ LoadCollect
    \/ GenerateAssetsBegin
    \/ \E i \in DOMAIN worker : SpawnAtlas(i)
    \/ \E i \in DOMAIN worker : SpawnTips(i)
    \/ \E i \in DOMAIN worker : SpawnPainting(i)
    \/ \E i \in DOMAIN worker : BarInc(i)
    \/ \E i \in DOMAIN worker : AtlasTask(i)
    \/ \E i \in DOMAIN worker : TipsTask(i)
    \/ \E i \in DOMAIN worker : PaintingTask(i)
    \/ \E i \in DOMAIN worker : ScopeEnd(i)
    \/ ForEachJoin
    \/ BarFinish
    \/ PrintSummary

\* The run under a scheduler that does not stop while a step can be taken:
\* rayon's pool runs a job that is ready, and a thread waiting in a scope or
\* in collect() takes ready jobs itself.
FairSpec == Spec /\ WF_vars(Unwind)

\* generate_atlas under the same scheduler.
FairAtlas == SpecAtlas /\ WF_vars(NextAtlas)

\* generate_atlas, once entered, returns or panics: its 5 parallel resizes and
\* the merge loop end. This is what lets AtlasTask be one step of FairSpec.
AtlasEnds == apc # "idle" ~> apc \in {"returned", "panicked"}

\* C20: under fair scheduling every run, over a store of any size N >= 0,
\* ends: it reaches the completed state or the aborted state.
C20_RunTerminates == <>(pc \in {"exited", "aborted"})

C20_Witness ==
    /\ pc = "exited"
    /\ Len(input_imgs) = 2
    /\ \A i \in DOMAIN worker : worker[i] = "joined"

====
